---- MODULE Spec2Model ----
(***************************************************************************)
(* Model of the WeAct Studio system monitor: the link health check and     *)
(* bounded reconnect (src/main.py, DisplayManager), the metric collector   *)
(* built on APScheduler's BackgroundScheduler, with its pydantic           *)
(* configuration models (src/library/metric_collector.py), the serial      *)
(* queue worker                                                            *)
(* (src/main.py, SchedulerManager) and the run loop (SystemMonitor.run,    *)
(* main).                                                                  *)
(***************************************************************************)
EXTENDS Integers, Sequences, FiniteSets, TLC

(***************************************************************************)
(* Bounds of the model.                                                    *)
(***************************************************************************)
\* Largest Config.max_reconnect_attempts explored (the default is 20).
MaxM == 5
\* check_health is no longer called once the counter has reached this value.
AttemptCap == 7
\* The scheduler's clock runs from 0 to MaxTime (in seconds) in the
\* collector's harness and from 0 to RunMaxTime in the whole program.
MaxTime == 3
RunMaxTime == 1
\* At most MaxOps operations are put on the update queue in one run.
MaxOps == 3
\* _wait_for_queue in initialize gives up after this many 0.1 s polls (the
\* program's timeout of 10.0 s is 100 polls).
InitWaitPolls == 2

\* Task names of the theme bridge (create_default_config_from_theme) and the
\* values of a task's fields the model explores.
TaskNames == {"cpu_percentage", "memory_stats"}
Intervals == {1, 2}
InstanceLimits == {1, 2}

VARIABLES
    \* ---- DisplayManager / link ----
    simulated,                \* display.is_LcdSimulated
    max_reconnect_attempts,   \* Config.max_reconnect_attempts
    serial,                   \* display.lcd.lcd_serial: "open" or "closed"
    reconnect_attempts,       \* DisplayManager.reconnect_attempts
    fails,                    \* history: failed open() calls since the link was last connected
    last_call,                \* history: what the last check_health call did
    \* ---- MetricCollector ----
    config_tasks,             \* MetricCollectorConfig.tasks, by task name
    task_handlers,            \* names with a registered handler
    sched_running,            \* BackgroundScheduler.running
    jobs,                     \* the scheduler's jobs, by job id (the task name)
    instances,                \* the executor's count of submitted, unfinished runs per job id
    running,                  \* handler invocations executing on a pool thread, per job id
    pool_queue,               \* submitted runs waiting for a free pool thread, oldest first
    now,                      \* the clock
    last_api,                 \* history: the last MetricCollector call and what it raised
    last_fire,                \* history: the last firing and whether the handler was invoked
    \* ---- SchedulerManager / serial queue ----
    update_queue,             \* config.update_queue: the pending (f, args) operations
    sm_stopping,              \* SchedulerManager._stopping
    worker_pc,                \* one entry per Queue_Handler thread: "test", "poll", "exec", "exited"
    worker_op,                \* the operation each Queue_Handler thread is executing
    arrived,                  \* history: every operation put on the queue, in arrival order
    dequeued,                 \* history: the operations the workers took, in the order taken
    stop_mark,                \* history: how many operations had been taken when the stop flag was set, -1 before
    \* ---- SystemMonitor.run / main ----
    pc,                       \* where the main thread is in run()
    mon_stopping,             \* SystemMonitor._stopping
    wait_elapsed,             \* polls made by the running _wait_for_queue
    display_off,              \* display.turn_off() has been called
    shutdown_calls,           \* history: calls of DisplayManager.shutdown
    exit_status,              \* the process's exit status, -1 while it runs
    \* ---- configuration models ----
    task_input,               \* history: the fields last handed to MetricTaskConfig(...)
    task_result,              \* what that construction gave: the object or the ValidationError
    tasks,                    \* the caller's list of constructed MetricTaskConfig objects
    registry                  \* what MetricCollectorConfig(tasks=tasks) gave

healthVars == <<simulated, max_reconnect_attempts, serial, reconnect_attempts, fails, last_call>>
schedVars == <<config_tasks, task_handlers, sched_running, jobs, instances, running, pool_queue,
               now, last_api, last_fire>>
queueVars == <<update_queue, sm_stopping, worker_pc, worker_op, arrived, dequeued, stop_mark>>
runVars == <<pc, mon_stopping, wait_elapsed, display_off, shutdown_calls, exit_status>>

cfgVars == <<task_input, task_result, tasks, registry>>

vars == <<healthVars, schedVars, queueVars, runVars, cfgVars>>

(***************************************************************************)
(* DisplayManager.check_health and _try_reconnect.                         *)
(***************************************************************************)
NoCall == [result |-> "none", probe |-> TRUE, reopened |-> FALSE, fails_before |-> 0,
           trace |-> <<>>]

\* _is_connected: lcd_serial and lcd_serial.is_open
IsConnected(s) == s = "open"

\* Faulty variant of Exhausted: the limit is taken as reached one attempt early.
ExhaustedOffByOne(attempts, max) == attempts >= max
\* line 107: self.reconnect_attempts > config.max_reconnect_attempts
Exhausted(attempts, max) == attempts > max

\* Faulty variant of AttemptSteps: open() is tried without the wait.
AttemptStepsNoWait == <<"open">>
\* lines 111-114: time.sleep(config.reconnect_wait), then lcd_serial.open()
AttemptSteps == <<"wait", "open">>

\* Faulty variant of TryReconnect: a successful open() leaves the counter as
\* it is.
TryReconnectNoReset(att, max, openOk) ==
    LET n == att + 1 IN
    IF Exhausted(n, max)
    THEN [attempts |-> n, result |-> "Fatal", serial |-> "closed", trace |-> <<>>]
    ELSE IF openOk
         THEN [attempts |-> n, result |-> "NeedsRestart", serial |-> "open",
               trace |-> AttemptSteps]
         ELSE [attempts |-> n, result |-> "Ok", serial |-> "closed",
               trace |-> AttemptSteps]
\* _try_reconnect with the counter at `att`, the limit `max` and the outcome
\* `openOk` of lcd_serial.open(), should the call get that far.  The result
\* "Fatal" is the RuntimeError of line 109, "NeedsRestart" is True, "Ok" is
\* False.  `trace` lists the sleep and the open() the call made, in order.
TryReconnect(att, max, openOk) ==
    LET n == att + 1 IN
    IF Exhausted(n, max)
    THEN [attempts |-> n, result |-> "Fatal", serial |-> "closed", trace |-> <<>>]
    ELSE IF openOk
         THEN [attempts |-> 0, result |-> "NeedsRestart", serial |-> "open",
               trace |-> AttemptSteps]
         ELSE [attempts |-> n, result |-> "Ok", serial |-> "closed",
               trace |-> AttemptSteps]

\* check_health: the simulated display returns at once; an open link resets
\* the counter; a closed one goes through _try_reconnect.
CheckHealth(sim, s, att, max, openOk) ==
    IF sim
    THEN [attempts |-> att, result |-> "Ok", serial |-> s, trace |-> <<>>]
    ELSE IF ~IsConnected(s)
         THEN TryReconnect(att, max, openOk)
         ELSE [attempts |-> 0, result |-> "Ok", serial |-> s, trace |-> <<>>]

\* The effect of one check_health call on the link state and the history.
HealthStep(openOk) ==
    LET r == CheckHealth(simulated, serial, reconnect_attempts,
                         max_reconnect_attempts, openOk)
    IN  /\ reconnect_attempts' = r.attempts
        /\ serial' = r.serial
        /\ last_call' = [result |-> r.result, probe |-> IsConnected(serial),
                         reopened |-> ~IsConnected(serial) /\ IsConnected(r.serial),
                         fails_before |-> fails, trace |-> r.trace]
        /\ fails' = IF simulated THEN fails
                    ELSE IF IsConnected(r.serial) THEN 0
                    ELSE IF r.trace # <<>> THEN fails + 1
                    ELSE fails
        /\ UNCHANGED <<simulated, max_reconnect_attempts>>

\* The harness: the owner calls check_health again, the open() of the call
\* succeeding or raising.
CallCheckHealth ==
    /\ reconnect_attempts < AttemptCap
    /\ \E openOk \in BOOLEAN : HealthStep(openOk)
    /\ UNCHANGED <<schedVars, queueVars, runVars, cfgVars>>

\* The environment: the serial link drops (the device is unplugged, a write
\* fails and the port is closed).
LinkDrop ==
    /\ serial = "open"
    /\ serial' = "closed"
    /\ UNCHANGED <<simulated, max_reconnect_attempts, reconnect_attempts, fails, last_call>>
    /\ UNCHANGED <<schedVars, queueVars, runVars, cfgVars>>

(***************************************************************************)
(* MetricCollector on APScheduler 3.x's BackgroundScheduler.  The library  *)
(* is modelled by what its calls do: add_job(replace_existing=True) puts   *)
(* or replaces the job of that id; start() raises                          *)
(* SchedulerAlreadyRunningError on a running scheduler; pause_job and      *)
(* resume_job raise JobLookupError for an unknown id; resume_job sets the  *)
(* next run time to the trigger's next fire time after now; a due job is   *)
(* submitted unless its running instances have reached max_instances, in   *)
(* which case the run is skipped; shutdown(wait=True) takes no timeout     *)
(* argument.                                                               *)
(***************************************************************************)
TaskConfigs == [interval_seconds : Intervals, enabled : BOOLEAN, max_instances : InstanceLimits]

NoApi == [op |-> "none", arg |-> "", raised |-> "none"]
NoFire == [task |-> "", outcome |-> "none"]

\* IntervalTrigger.get_next_fire_time(None, now): the first fire time of the
\* grid start_date + k * interval that lies after `t`.
NextFireTime(start_date, interval, t) ==
    IF start_date > t THEN start_date
    ELSE start_date + (((t - start_date) \div interval) + 1) * interval

\* Faulty variant of Schedulable: the enabled flag is not looked at.
SchedulableIgnoringEnabled(cfg, handlers) == {n \in DOMAIN cfg : n \in handlers}
\* start(), lines 172-181: the tasks that are not skipped.
Schedulable(cfg, handlers) == {n \in DOMAIN cfg : cfg[n].enabled /\ n \in handlers}

\* Faulty variant of NewJob: max_instances is not passed on, so the job gets
\* add_job's default of 1.
NewJobDefaultInstances(tc, t) ==
    [interval |-> tc.interval_seconds, max_instances |-> 1,
     start_date |-> t + tc.interval_seconds, next_run |-> t + tc.interval_seconds,
     paused |-> FALSE]
\* start(), lines 185-192: the job add_job creates at time t for a task.
NewJob(tc, t) ==
    [interval |-> tc.interval_seconds, max_instances |-> tc.max_instances,
     start_date |-> t + tc.interval_seconds, next_run |-> t + tc.interval_seconds,
     paused |-> FALSE]

\* register_task_handler
RegisterHandler(n) ==
    /\ n \notin task_handlers
    /\ task_handlers' = task_handlers \cup {n}
    /\ last_api' = [op |-> "register_task_handler", arg |-> n, raised |-> "none"]
    /\ UNCHANGED <<config_tasks, sched_running, jobs, instances, running, pool_queue, now, last_fire>>

\* Faulty variant of NoHandlers: the early return is never taken.
NoHandlersIgnored(handlers) == FALSE
\* start(), line 166: not self.task_handlers
NoHandlers(handlers) == handlers = {}

\* start(): nothing without handlers; otherwise one add_job per task that is
\* enabled and has a handler, then scheduler.start().
StartEffect ==
    IF NoHandlers(task_handlers)
    THEN /\ last_api' = [op |-> "start", arg |-> "", raised |-> "none"]
         /\ UNCHANGED <<jobs, sched_running>>
    ELSE LET S == Schedulable(config_tasks, task_handlers) IN
         /\ jobs' = [n \in (DOMAIN jobs) \cup S |->
                        IF n \in S THEN NewJob(config_tasks[n], now) ELSE jobs[n]]
         /\ sched_running' = TRUE
         /\ last_api' = [op |-> "start", arg |-> "",
                         raised |-> IF sched_running
                                    THEN "SchedulerAlreadyRunningError" ELSE "none"]

Start ==
    /\ StartEffect
    /\ UNCHANGED <<config_tasks, task_handlers, instances, running, pool_queue, now, last_fire>>

\* stop(wait, timeout): scheduler.shutdown(wait=wait, timeout=timeout).
\* BaseScheduler.shutdown(self, wait=True) has no timeout parameter, so the
\* call raises TypeError before the scheduler is touched.
StopEffect ==
    /\ last_api' = [op |-> "stop", arg |-> "", raised |-> "TypeError"]
    /\ UNCHANGED <<jobs, sched_running>>

Stop ==
    /\ StopEffect
    /\ UNCHANGED <<config_tasks, task_handlers, instances, running, pool_queue, now, last_fire>>

\* pause_task: scheduler.pause_job(task_name)
PauseTask(n) ==
    /\ IF n \in DOMAIN jobs
       THEN /\ jobs' = [jobs EXCEPT ![n].paused = TRUE]
            /\ last_api' = [op |-> "pause_task", arg |-> n, raised |-> "none"]
       ELSE /\ jobs' = jobs
            /\ last_api' = [op |-> "pause_task", arg |-> n, raised |-> "JobLookupError"]
    /\ UNCHANGED <<config_tasks, task_handlers, sched_running, instances, running, pool_queue, now, last_fire>>

\* resume_task: scheduler.resume_job(task_name)
ResumeTask(n) ==
    /\ IF n \in DOMAIN jobs
       THEN /\ jobs' = [jobs EXCEPT
                          ![n].paused = FALSE,
                          ![n].next_run = NextFireTime(jobs[n].start_date, jobs[n].interval, now)]
            /\ last_api' = [op |-> "resume_task", arg |-> n, raised |-> "none"]
       ELSE /\ jobs' = jobs
            /\ last_api' = [op |-> "resume_task", arg |-> n, raised |-> "JobLookupError"]
    /\ UNCHANGED <<config_tasks, task_handlers, sched_running, instances, running, pool_queue, now, last_fire>>

\* get_status
get_status ==
    [running |-> sched_running,
     task_count |-> Cardinality(DOMAIN jobs),
     tasks |-> {<<n, IF jobs[n].paused THEN -1 ELSE jobs[n].next_run>> : n \in DOMAIN jobs}]

Due(n) == n \in DOMAIN jobs /\ ~jobs[n].paused /\ jobs[n].next_run <= now

\* The threads of the executor's pool.  BackgroundScheduler does not take the
\* max_workers option handed to it at line 148, so the executor is its default
\* one, a pool of 10 threads; the model scales that number down.
PoolSize == 2

\* The number of pool threads that are executing a handler.
BusyThreads == Cardinality(UNION {{<<n, i>> : i \in 1..running[n]} : n \in TaskNames})

\* The scheduler thread processes the due job n: the run is skipped when
\* max_instances runs of the job are submitted and unfinished; otherwise it is
\* submitted to the pool, where it starts at once on a free thread and waits
\* in the pool's queue when every thread is busy.  The job's next run time
\* moves one interval on.
Fire(n) ==
    /\ sched_running
    /\ Due(n)
    /\ IF instances[n] < jobs[n].max_instances
       THEN /\ instances' = [instances EXCEPT ![n] = @ + 1]
            /\ IF BusyThreads < PoolSize
               THEN /\ running' = [running EXCEPT ![n] = @ + 1]
                    /\ pool_queue' = pool_queue
                    /\ last_fire' = [task |-> n, outcome |-> "invoked"]
               ELSE /\ running' = running
                    /\ pool_queue' = Append(pool_queue, n)
                    /\ last_fire' = [task |-> n, outcome |-> "queued"]
       ELSE /\ instances' = instances
            /\ running' = running
            /\ pool_queue' = pool_queue
            /\ last_fire' = [task |-> n, outcome |-> "dropped"]
    /\ jobs' = [jobs EXCEPT ![n].next_run = NextFireTime(jobs[n].start_date, jobs[n].interval, now)]
    /\ UNCHANGED <<config_tasks, task_handlers, sched_running, now, last_api>>

\* A handler invocation returns or raises: the executor counts it out, and the
\* pool thread takes the oldest waiting run, if there is one.
Finish(n) ==
    /\ running[n] > 0
    /\ instances' = [instances EXCEPT ![n] = @ - 1]
    /\ IF pool_queue = <<>>
       THEN /\ running' = [running EXCEPT ![n] = @ - 1]
            /\ pool_queue' = pool_queue
       ELSE /\ running' = [m \in TaskNames |->
                             running[m] - (IF m = n THEN 1 ELSE 0)
                                        + (IF m = Head(pool_queue) THEN 1 ELSE 0)]
            /\ pool_queue' = Tail(pool_queue)
    /\ UNCHANGED <<config_tasks, task_handlers, sched_running, jobs, now, last_api, last_fire>>

\* A second passes.  The scheduler thread wakes at each job's next run time,
\* so no due job is left unprocessed when the clock moves on.
TickTo(limit) ==
    /\ now < limit
    /\ sched_running => \A n \in DOMAIN jobs : ~Due(n)
    /\ now' = now + 1
    /\ UNCHANGED <<config_tasks, task_handlers, sched_running, jobs, instances, running, pool_queue, last_api, last_fire>>

\* A collector right after MetricCollector.__init__ with configuration cfg,
\* and with the handlers of `registered` registered.
SchedInitWith(cfg, registered) ==
    /\ config_tasks = cfg
    /\ task_handlers = registered
    /\ sched_running = FALSE
    /\ jobs = <<>>
    /\ instances = [n \in TaskNames |-> 0]
    /\ running = [n \in TaskNames |-> 0]
    /\ pool_queue = <<>>
    /\ now = 0
    /\ last_api = NoApi
    /\ last_fire = NoFire

SchedIdle == SchedInitWith(<<>>, {})


(***************************************************************************)
(* MetricTaskConfig and MetricCollectorConfig: the pydantic models.  An    *)
(* interval is a number of hundredths of a second here, so that 0.05 s is  *)
(* 5, 0.1 s is 10 and 86400 s is 8640000.  A construction either gives the *)
(* object, with the fields as they were handed in, or raises a             *)
(* ValidationError naming the fields that failed.                          *)
(***************************************************************************)
\* validate_interval, line 71: 0.1 s
MinInterval == 10
\* validate_interval, line 73: 86400 s
MaxInterval == 8640000
\* The caller's list holds at most MaxTasks task objects.
MaxTasks == 2

\* The field values the model hands to MetricTaskConfig(...).
IntervalInputs == {0, 5, 9, 10, 11, 8640000, 8640001, 9000000}
InstanceInputs == {0, 1}
TaskDefs == [name : TaskNames, interval_seconds : IntervalInputs, max_instances : InstanceInputs]

NoDef == [name |-> "", interval_seconds |-> 0, max_instances |-> 0]
NoTaskResult == [status |-> "none", task |-> NoDef, errors |-> {}]
NoRegistry == [status |-> "none", tasks |-> <<>>, error |-> ""]

\* Faulty variant of validate_interval: the two bounds themselves are rejected.
validate_interval_exclusive(v) ==
    IF v <= MinInterval THEN [ok |-> FALSE, value |-> v]
    ELSE IF v >= MaxInterval THEN [ok |-> FALSE, value |-> v]
    ELSE [ok |-> TRUE, value |-> v]
\* validate_interval: ValueError below 0.1 s and above 86400 s, else the
\* value itself.
validate_interval(v) ==
    IF v < MinInterval THEN [ok |-> FALSE, value |-> v]
    ELSE IF v > MaxInterval THEN [ok |-> FALSE, value |-> v]
    ELSE [ok |-> TRUE, value |-> v]

\* MetricTaskConfig(name=..., interval_seconds=..., max_instances=...):
\* interval_seconds must pass Field(gt=0.0) and then validate_interval,
\* max_instances must pass Field(ge=1); enabled takes its default.
MetricTaskConfig(d) ==
    LET iv == IF d.interval_seconds > 0
              THEN validate_interval(d.interval_seconds)
              ELSE [ok |-> FALSE, value |-> d.interval_seconds]
        errors == (IF iv.ok THEN {} ELSE {"interval_seconds"})
                  \cup (IF d.max_instances >= 1 THEN {} ELSE {"max_instances"})
    IN  IF errors = {}
        THEN [status |-> "ok",
              task |-> [name |-> d.name, interval_seconds |-> iv.value,
                        max_instances |-> d.max_instances],
              errors |-> {}]
        ELSE [status |-> "error", task |-> NoDef, errors |-> errors]

\* Faulty variant of validate_unique_names: the names are not compared.
validate_unique_names_unchecked(v) == TRUE
\* validate_unique_names, lines 105-106: len(names) == len(set(names))
validate_unique_names(v) ==
    Len(v) = Cardinality({v[i].name : i \in 1..Len(v)})

\* MetricCollectorConfig(tasks=v): the list itself, or a ValidationError.
MetricCollectorConfig(v) ==
    IF validate_unique_names(v)
    THEN [status |-> "ok", tasks |-> v, error |-> ""]
    ELSE [status |-> "error", tasks |-> <<>>, error |-> "Task names must be unique"]

\* A caller constructs a task object from the fields d and appends it to its
\* list, as create_default_config_from_theme does; a ValidationError leaves
\* the list as it was.
AppendTask(d) ==
    /\ registry.status = "none"
    /\ LET r == MetricTaskConfig(d) IN
       /\ task_input' = d
       /\ task_result' = r
       /\ tasks' = IF r.status = "ok" THEN Append(tasks, r.task) ELSE tasks
    /\ Len(tasks') <= MaxTasks
    /\ UNCHANGED registry
    /\ UNCHANGED <<healthVars, schedVars, queueVars, runVars>>

\* The caller constructs the collector's configuration from its list.
BuildConfig ==
    /\ registry.status = "none"
    /\ registry' = MetricCollectorConfig(tasks)
    /\ UNCHANGED <<task_input, task_result, tasks>>
    /\ UNCHANGED <<healthVars, schedVars, queueVars, runVars>>

\* No configuration object has been constructed through the harness.
CfgIdle ==
    /\ task_input = NoDef
    /\ task_result = NoTaskResult
    /\ tasks = <<>>
    /\ registry = NoRegistry


(***************************************************************************)
(* SchedulerManager: the serial queue and its Queue_Handler worker.  An    *)
(* operation is the pair (f, args) a producer put on config.update_queue;  *)
(* its kind says what calling it does: "ok" returns, "raises" raises, and  *)
(* "none" stands for a pair whose f is falsy, which the worker takes and   *)
(* does not call.                                                          *)
(***************************************************************************)
Producers == TaskNames \cup {"static"}
QueueProducers == {"static", "cpu_percentage"}
Kinds == {"ok", "raises", "none"}
Ops == [src : Producers, n : 1..(MaxOps + 1), kind : Kinds]
NoOp == [src |-> "", n |-> 0, kind |-> "none"]

\* The operations of producer p among those of sequence q.
CountOf(q, p) == Cardinality({i \in 1..Len(q) : q[i].src = p})

\* A producer puts the operation (f, args) on the queue: queue.Queue.put
\* appends it.
Put(p, kind) ==
    /\ Len(arrived) < MaxOps
    /\ LET op == [src |-> p, n |-> CountOf(arrived, p) + 1, kind |-> kind] IN
       /\ update_queue' = Append(update_queue, op)
       /\ arrived' = Append(arrived, op)
    /\ UNCHANGED <<sm_stopping, stop_mark, worker_pc, worker_op, dequeued>>

\* Faulty variant of Get: the newest operation is taken first.
GetLifo(q) == [op |-> q[Len(q)], rest |-> SubSeq(q, 1, Len(q) - 1)]
\* line 170: update_queue.get() takes the oldest operation.
Get(q) == [op |-> Head(q), rest |-> Tail(q)]

\* Faulty variant of AfterExec: no except clause, a raising call ends the thread.
AfterExecUncaught(kind) == IF kind = "raises" THEN "exited" ELSE "test"
\* lines 168-175: whatever f(*args) does, the bare except swallows it and the
\* loop sleeps and tests the flag again.
AfterExec(kind) == "test"

\* Faulty variant of StartQueueHandler: two threads are started.
StartTwoQueueHandlers ==
    /\ worker_pc' = worker_pc \o <<"test", "test">>
    /\ worker_op' = worker_op \o <<NoOp, NoOp>>
\* start_queue_handler: a new daemon thread running queue_handler_loop.
StartQueueHandler ==
    /\ worker_pc' = Append(worker_pc, "test")
    /\ worker_op' = Append(worker_op, NoOp)

\* Faulty variant of LoopContinues: the stop flag is not looked at.
LoopContinuesAlways(stopping) == TRUE
\* line 167: not self._stopping
LoopContinues(stopping) == ~stopping

\* line 167: while not self._stopping
WorkerTest(w) ==
    /\ worker_pc[w] = "test"
    /\ worker_pc' = [worker_pc EXCEPT
                       ![w] = IF LoopContinues(sm_stopping) THEN "poll" ELSE "exited"]
    /\ UNCHANGED <<update_queue, sm_stopping, stop_mark, worker_op, arrived, dequeued>>

\* lines 169-171: if the queue is not empty, take the next operation; call it
\* if f is truthy, else go on to the sleep.
WorkerPoll(w) ==
    /\ worker_pc[w] = "poll"
    /\ IF update_queue = <<>>
       THEN /\ worker_pc' = [worker_pc EXCEPT ![w] = "test"]
            /\ UNCHANGED <<update_queue, worker_op, dequeued>>
       ELSE LET g == Get(update_queue) IN
            /\ update_queue' = g.rest
            /\ dequeued' = Append(dequeued, g.op)
            /\ IF g.op.kind = "none"
               THEN /\ worker_pc' = [worker_pc EXCEPT ![w] = "test"]
                    /\ worker_op' = worker_op
               ELSE /\ worker_pc' = [worker_pc EXCEPT ![w] = "exec"]
                    /\ worker_op' = [worker_op EXCEPT ![w] = g.op]
    /\ UNCHANGED <<sm_stopping, stop_mark, arrived>>

\* lines 172-175: f(*args) returns or raises, then the 1 ms sleep.
WorkerExec(w) ==
    /\ worker_pc[w] = "exec"
    /\ worker_pc' = [worker_pc EXCEPT ![w] = AfterExec(worker_op[w].kind)]
    /\ worker_op' = [worker_op EXCEPT ![w] = NoOp]
    /\ UNCHANGED <<update_queue, sm_stopping, stop_mark, arrived, dequeued>>

WorkerStep(w) == WorkerTest(w) \/ WorkerPoll(w) \/ WorkerExec(w)

\* stop_all, line 193: the flag is set (the collector's stop follows).
SetStopping ==
    /\ sm_stopping' = TRUE
    /\ stop_mark' = IF sm_stopping THEN stop_mark ELSE Len(dequeued)

\* SchedulerManager.__init__: no worker yet, the flag down, the queue empty.
QueueInit ==
    /\ update_queue = <<>>
    /\ sm_stopping = FALSE
    /\ worker_pc = <<>>
    /\ worker_op = <<>>
    /\ arrived = <<>>
    /\ dequeued = <<>>
    /\ stop_mark = -1

(***************************************************************************)
(* SystemMonitor.run and main: the main thread.  pc is "start" before      *)
(* initialize, "init_wait" in initialize's _wait_for_queue, "start_all"    *)
(* before start_all, "loop" at the loop test, "check" at check_health,     *)
(* "restart" at the shutdown of line 253, "cleanup" at the shutdown of     *)
(* line 262, "exited" once the process has ended (its daemon threads end   *)
(* with it).                                                               *)
(***************************************************************************)
\* display_static_images and display_static_text: one operation each.
StaticOps == <<[src |-> "static", n |-> 1, kind |-> "ok"],
               [src |-> "static", n |-> 2, kind |-> "ok"]>>

\* DisplayManager.initialize up to the wait: the worker is started and the
\* static content is queued.
RunInitialize ==
    /\ pc = "start"
    /\ StartQueueHandler
    /\ update_queue' = update_queue \o StaticOps
    /\ arrived' = arrived \o StaticOps
    /\ wait_elapsed' = 0
    /\ pc' = "init_wait"
    /\ UNCHANGED <<sm_stopping, stop_mark, dequeued, mon_stopping, display_off, shutdown_calls, exit_status>>
    /\ UNCHANGED <<healthVars, schedVars, cfgVars>>

\* Faulty variant of KeepWaiting: the elapsed time is not looked at.
KeepWaitingNoTimeout(q, elapsed, timeout) == q # <<>>
\* _wait_for_queue, line 63: not update_queue.empty() and elapsed < timeout
KeepWaiting(q, elapsed, timeout) == q # <<>> /\ elapsed < timeout

\* _wait_for_queue(timeout=10.0): poll until the queue is empty or the
\* time is up.
RunInitWait ==
    /\ pc = "init_wait"
    /\ IF KeepWaiting(update_queue, wait_elapsed, InitWaitPolls)
       THEN /\ wait_elapsed' = wait_elapsed + 1
            /\ pc' = pc
       ELSE /\ wait_elapsed' = wait_elapsed
            /\ pc' = "start_all"
    /\ UNCHANGED <<mon_stopping, display_off, shutdown_calls, exit_status>>
    /\ UNCHANGED <<healthVars, schedVars, queueVars, cfgVars>>

\* start_all: collector.start()
RunStartAll ==
    /\ pc = "start_all"
    /\ StartEffect
    /\ pc' = "loop"
    /\ UNCHANGED <<config_tasks, task_handlers, instances, running, pool_queue, now, last_fire>>
    /\ UNCHANGED <<mon_stopping, wait_elapsed, display_off, shutdown_calls, exit_status>>
    /\ UNCHANGED <<healthVars, queueVars, cfgVars>>

\* line 245-246: the loop test, then the sleep of one health check interval.
RunLoopTest ==
    /\ pc = "loop"
    /\ pc' = IF mon_stopping THEN "cleanup" ELSE "check"
    /\ UNCHANGED <<mon_stopping, wait_elapsed, display_off, shutdown_calls, exit_status>>
    /\ UNCHANGED <<healthVars, schedVars, queueVars, cfgVars>>

\* lines 249-259: where the loop goes after check_health.
AfterCheck(result) ==
    CASE result = "NeedsRestart" -> "restart"
      [] result = "Fatal" -> "cleanup"
      [] OTHER -> "loop"

RunCheck ==
    /\ pc = "check"
    /\ \E openOk \in BOOLEAN : HealthStep(openOk)
    /\ pc' = AfterCheck(last_call'.result)
    /\ UNCHANGED <<mon_stopping, wait_elapsed, display_off, shutdown_calls, exit_status>>
    /\ UNCHANGED <<schedVars, queueVars, cfgVars>>

\* DisplayManager.shutdown: turn_off, then stop_all sets the flag and calls
\* collector.stop, whose TypeError leaves stop_all, shutdown and run (which
\* logs and re-raises it); main's finally releases the lock and the
\* __main__ block prints the error and exits with status 1.
RunShutdown ==
    /\ pc \in {"restart", "cleanup"}
    /\ display_off' = TRUE
    /\ SetStopping
    /\ StopEffect
    /\ shutdown_calls' = shutdown_calls + 1
    /\ pc' = "exited"
    /\ exit_status' = 1
    /\ UNCHANGED <<config_tasks, task_handlers, instances, running, pool_queue, now, last_fire>>
    /\ UNCHANGED <<update_queue, worker_pc, worker_op, arrived, dequeued>>
    /\ UNCHANGED <<mon_stopping, wait_elapsed>>
    /\ UNCHANGED <<healthVars, cfgVars>>

\* _signal_handler: SIGINT, SIGTERM or SIGQUIT arrives.
Signal ==
    /\ pc \notin {"start", "exited"}
    /\ ~mon_stopping
    /\ mon_stopping' = TRUE
    /\ UNCHANGED <<pc, wait_elapsed, display_off, shutdown_calls, exit_status>>
    /\ UNCHANGED <<healthVars, schedVars, queueVars, cfgVars>>

\* A running handler invocation of task n puts an operation on the queue
\* (in the whole program, one whose call returns: the worker treats a raising
\* call the same way).
HandlerPut(n, kind) ==
    /\ running[n] > 0
    /\ Put(n, kind)

\* SystemMonitor.__init__: the collector is configured from the theme (each
\* task enabled, max_instances 1) and every handler is registered.
ThemeIntervals == [n \in TaskNames |-> 1]
ThemeConfigs ==
    {[n \in D |-> [interval_seconds |-> ThemeIntervals[n], enabled |-> TRUE, max_instances |-> 1]] :
        D \in SUBSET TaskNames}

RunInit ==
    /\ pc = "start"
    /\ mon_stopping = FALSE
    /\ wait_elapsed = 0
    /\ display_off = FALSE
    /\ shutdown_calls = 0
    /\ exit_status = -1

HealthInit ==
    /\ simulated \in BOOLEAN
    /\ max_reconnect_attempts \in 0..MaxM
    /\ serial = "open"
    /\ reconnect_attempts = 0
    /\ fails = 0
    /\ last_call = NoCall

\* The program as main() runs it.  The reconnect limit takes the small
\* values of RunLimits (Config's default is 20).
RunLimits == {2}

Init ==
    /\ HealthInit
    /\ max_reconnect_attempts \in RunLimits
    /\ \E cfg \in ThemeConfigs : SchedInitWith(cfg, TaskNames)
    /\ QueueInit
    /\ RunInit
    /\ CfgIdle

Alive == pc # "exited"

Next ==
    \/ RunInitialize
    \/ RunInitWait
    \/ RunStartAll
    \/ RunLoopTest
    \/ RunCheck
    \/ RunShutdown
    \/ Signal
    \/ Alive /\ LinkDrop
    \/ Alive /\ \E w \in 1..Len(worker_pc) : WorkerTest(w) /\ UNCHANGED <<healthVars, schedVars, runVars, cfgVars>>
    \/ Alive /\ \E w \in 1..Len(worker_pc) : WorkerPoll(w) /\ UNCHANGED <<healthVars, schedVars, runVars, cfgVars>>
    \/ Alive /\ \E w \in 1..Len(worker_pc) : WorkerExec(w) /\ UNCHANGED <<healthVars, schedVars, runVars, cfgVars>>
    \/ Alive /\ \E n \in TaskNames : Fire(n) /\ UNCHANGED <<healthVars, queueVars, runVars, cfgVars>>
    \/ Alive /\ \E n \in TaskNames : Finish(n) /\ UNCHANGED <<healthVars, queueVars, runVars, cfgVars>>
    \/ Alive /\ \E n \in TaskNames : HandlerPut(n, "ok") /\ UNCHANGED <<healthVars, schedVars, runVars, cfgVars>>
    \/ Alive /\ TickTo(RunMaxTime) /\ UNCHANGED <<healthVars, queueVars, runVars, cfgVars>>

Spec == Init /\ [][Next]_vars

SpecHealthInit ==
    /\ HealthInit
    /\ SchedIdle
    /\ QueueInit
    /\ RunInit
    /\ CfgIdle

SpecHealthNext ==
    \/ CallCheckHealth
    \/ LinkDrop

SpecHealth == SpecHealthInit /\ [][SpecHealthNext]_vars

SpecSchedInit ==
    /\ HealthInit
    /\ simulated = TRUE
    /\ max_reconnect_attempts = 0
    /\ \E D \in SUBSET TaskNames : \E cfg \in [D -> TaskConfigs] : SchedInitWith(cfg, {})
    /\ QueueInit
    /\ RunInit
    /\ CfgIdle

SpecSchedNext ==
    \/ \E n \in TaskNames : RegisterHandler(n) /\ UNCHANGED <<healthVars, queueVars, runVars, cfgVars>>
    \/ Start /\ UNCHANGED <<healthVars, queueVars, runVars, cfgVars>>
    \/ Stop /\ UNCHANGED <<healthVars, queueVars, runVars, cfgVars>>
    \/ \E n \in TaskNames : PauseTask(n) /\ UNCHANGED <<healthVars, queueVars, runVars, cfgVars>>
    \/ \E n \in TaskNames : ResumeTask(n) /\ UNCHANGED <<healthVars, queueVars, runVars, cfgVars>>
    \/ \E n \in TaskNames : Fire(n) /\ UNCHANGED <<healthVars, queueVars, runVars, cfgVars>>
    \/ \E n \in TaskNames : Finish(n) /\ UNCHANGED <<healthVars, queueVars, runVars, cfgVars>>
    \/ TickTo(MaxTime) /\ UNCHANGED <<healthVars, queueVars, runVars, cfgVars>>

SpecSched == SpecSchedInit /\ [][SpecSchedNext]_vars

\* The queue harness: the worker has been started once, producers put
\* operations of any kind, and stop_all may be called (its collector.stop
\* raises, as in Stop).  The worker thread is scheduled fairly.
SpecQueueInit ==
    /\ HealthInit
    /\ simulated = TRUE
    /\ max_reconnect_attempts = 0
    /\ SchedIdle
    /\ update_queue = <<>>
    /\ sm_stopping = FALSE
    /\ worker_pc = <<"test">>
    /\ worker_op = <<NoOp>>
    /\ arrived = <<>>
    /\ dequeued = <<>>
    /\ stop_mark = -1
    /\ RunInit
    /\ CfgIdle

StopAll ==
    /\ ~sm_stopping
    /\ SetStopping
    /\ StopEffect
    /\ UNCHANGED <<update_queue, worker_pc, worker_op, arrived, dequeued>>
    /\ UNCHANGED <<config_tasks, task_handlers, instances, running, pool_queue, now, last_fire>>
    /\ UNCHANGED <<healthVars, runVars, cfgVars>>

\* start_queue_handler is called once more after stop_all has been called.
StartAfterStop ==
    /\ sm_stopping
    /\ Len(worker_pc) = 1
    /\ StartQueueHandler
    /\ UNCHANGED <<update_queue, sm_stopping, stop_mark, arrived, dequeued>>
    /\ UNCHANGED <<healthVars, schedVars, runVars, cfgVars>>

SpecQueueNext ==
    \/ \E p \in QueueProducers, k \in Kinds : Put(p, k) /\ UNCHANGED <<healthVars, schedVars, runVars, cfgVars>>
    \/ \E w \in 1..Len(worker_pc) : WorkerTest(w) /\ UNCHANGED <<healthVars, schedVars, runVars, cfgVars>>
    \/ \E w \in 1..Len(worker_pc) : WorkerPoll(w) /\ UNCHANGED <<healthVars, schedVars, runVars, cfgVars>>
    \/ \E w \in 1..Len(worker_pc) : WorkerExec(w) /\ UNCHANGED <<healthVars, schedVars, runVars, cfgVars>>
    \/ StopAll
    \/ StartAfterStop

SpecQueue ==
    /\ SpecQueueInit
    /\ [][SpecQueueNext]_vars
    /\ WF_vars(WorkerStep(1) /\ UNCHANGED <<healthVars, schedVars, runVars, cfgVars>>)

\* The configuration harness: a caller builds task objects from any field
\* values and then the collector's configuration from its list.
SpecConfigInit ==
    /\ HealthInit
    /\ simulated = TRUE
    /\ max_reconnect_attempts = 0
    /\ SchedIdle
    /\ QueueInit
    /\ RunInit
    /\ CfgIdle

SpecConfigNext ==
    \/ \E d \in TaskDefs : AppendTask(d)
    \/ BuildConfig

SpecConfig == SpecConfigInit /\ [][SpecConfigNext]_vars

(***************************************************************************)
(* Claims about the link health check.                                     *)
(***************************************************************************)
\* C1: a check_health call that finds a non-simulated link closed after K
\* failed re-opens (K = fails) reports Fatal, leaves the link closed and
\* calls no open() when K >= max_reconnect_attempts; when K < max it tries
\* open(), and either the link is Connected again with the counter reset to
\* 0 (NeedsRestart) or the failure count becomes K + 1.
C1_BoundedReconnect ==
    [][ (~simulated /\ serial = "closed") =>
          /\ fails >= max_reconnect_attempts =>
                /\ last_call'.result = "Fatal"
                /\ last_call'.trace = <<>>
                /\ serial' = "closed"
                /\ fails' = fails
          /\ fails < max_reconnect_attempts =>
                \/ /\ serial' = "open"
                   /\ reconnect_attempts' = 0
                   /\ fails' = 0
                   /\ last_call'.result = "NeedsRestart"
                \/ /\ serial' = "closed"
                   /\ fails' = fails + 1
                   /\ reconnect_attempts' = fails + 1
                   /\ last_call'.result = "Ok" ]_vars

\* C1 witness: with a limit of at least 2, check_health has reported Fatal
\* after exactly max failed re-opens.
C1_Witness ==
    /\ ~simulated
    /\ max_reconnect_attempts >= 2
    /\ last_call.result = "Fatal"
    /\ last_call.fails_before = max_reconnect_attempts
    /\ reconnect_attempts > max_reconnect_attempts + 1

(***************************************************************************)
(* Claims about the metric collector.                                      *)
(***************************************************************************)
\* C2: the in-flight invocations of a job never exceed the max_instances of
\* its task; a firing at the cap is dropped (no invocation, the job is no
\* longer due, so the firing is not kept for later); a firing below the cap
\* is not dropped and is counted, whatever the other tasks' counts are.
C2_InstanceCap ==
    /\ [](\A n \in DOMAIN jobs : /\ instances[n] <= config_tasks[n].max_instances
                                /\ running[n] <= instances[n])
    /\ [][\A n \in TaskNames :
            /\ (Fire(n) /\ instances[n] >= config_tasks[n].max_instances) =>
                  /\ instances' = instances
                  /\ running' = running
                  /\ pool_queue' = pool_queue
                  /\ last_fire' = [task |-> n, outcome |-> "dropped"]
                  /\ ~Due(n)'
            /\ (Fire(n) /\ instances[n] < config_tasks[n].max_instances) =>
                  /\ instances'[n] = instances[n] + 1
                  /\ last_fire'.task = n
                  /\ last_fire'.outcome \in {"invoked", "queued"}
                  /\ \A m \in TaskNames \ {n} : instances'[m] = instances[m] ]_vars

\* C2 witness: a firing of a task with max_instances = 2 was dropped with two
\* invocations in flight, while the other task has none in flight.
C2_Witness ==
    \E n \in DOMAIN jobs :
        /\ last_fire = [task |-> n, outcome |-> "dropped"]
        /\ config_tasks[n].max_instances = 2
        /\ instances[n] = 2
        /\ \A m \in TaskNames \ {n} : instances[m] = 0

\* C6: a start() with a handler registered leaves exactly one job per
\* configured task that is enabled and has a handler, with the task's
\* interval and max_instances, first due one interval from now; on a
\* scheduler that was not running it raises nothing and the scheduler runs.
C6_StartSchedulesEnabled ==
    [][ (Start /\ task_handlers # {}) =>
          /\ DOMAIN jobs' = {n \in DOMAIN config_tasks :
                                config_tasks[n].enabled /\ n \in task_handlers}
          /\ \A n \in DOMAIN jobs' :
                /\ jobs'[n].interval = config_tasks[n].interval_seconds
                /\ jobs'[n].max_instances = config_tasks[n].max_instances
                /\ jobs'[n].next_run = now + config_tasks[n].interval_seconds
                /\ ~jobs'[n].paused
          /\ sched_running'
          /\ ~sched_running => last_api'.raised = "none" ]_vars

\* C6 witness: a first start() scheduled one task and skipped the other, which
\* is configured and has a handler but is disabled.
C6_Witness ==
    /\ last_api = [op |-> "start", arg |-> "", raised |-> "none"]
    /\ sched_running
    /\ Cardinality(DOMAIN jobs) = 1
    /\ \E n \in DOMAIN config_tasks :
          ~config_tasks[n].enabled /\ n \in task_handlers /\ n \notin DOMAIN jobs

\* C7 (as claimed): pause_task of a name that is not scheduled and
\* resume_task of a name that is not paused raise nothing and leave the jobs
\* and the scheduler as they were.
C7_PauseResumeNoOp ==
    [][\A n \in TaskNames :
          (\/ PauseTask(n) /\ n \notin DOMAIN jobs
           \/ ResumeTask(n) /\ ~(n \in DOMAIN jobs /\ jobs[n].paused)) =>
             /\ last_api'.raised = "none"
             /\ jobs' = jobs
             /\ sched_running' = sched_running ]_vars

\* C8 (as claimed): stop(wait=True, timeout=T), called with a handler
\* invocation in flight, returns (raises nothing), and the scheduler no longer
\* runs afterwards, so no new handler invocation is started.
C8_StopReturns ==
    (last_api.op = "stop" /\ \E n \in TaskNames : instances[n] > 0) =>
        (last_api.raised = "none" /\ ~sched_running)

(***************************************************************************)
(* Claims about the serial queue worker.                                   *)
(***************************************************************************)
InQueue(o) == \E i \in 1..Len(update_queue) : update_queue[i] = o
Taken(o) == \E i \in 1..Len(dequeued) : dequeued[i] = o

\* C4: the worker takes operations in arrival order: what it has taken is
\* the first part of what arrived, what is pending is the rest, the
\* operation it is executing is the last one taken, and the operations of
\* one producer are taken in the order that producer put them.
C4_Fifo ==
    /\ Len(dequeued) <= Len(arrived)
    /\ dequeued = SubSeq(arrived, 1, Len(dequeued))
    /\ update_queue = SubSeq(arrived, Len(dequeued) + 1, Len(arrived))
    /\ worker_pc[1] = "exec" => worker_op[1] = dequeued[Len(dequeued)]
    /\ \A i, j \in 1..Len(dequeued) :
          (i < j /\ dequeued[i].src = dequeued[j].src) => dequeued[i].n < dequeued[j].n

\* C4 witness: one producer put operations 1, 2, 3; the first two are done
\* and the worker is executing the third.
C4_Witness ==
    /\ Len(dequeued) = 3
    /\ \A i \in 1..3 : dequeued[i].src = "static" /\ dequeued[i].n = i /\ dequeued[i].kind # "none"
    /\ worker_pc[1] = "exec"
    /\ worker_op[1].n = 3

\* C5: the worker thread ends only when the stop flag is set, a raising
\* operation sends it back to the loop test, and an operation queued right
\* behind a raising one is executed unless the stop flag is set first.
C5_WorkerSurvives ==
    /\ [][\A w \in 1..Len(worker_pc) :
            /\ (worker_pc[w] # "exited" /\ worker_pc'[w] = "exited") => sm_stopping
            /\ (worker_pc[w] = "exec" /\ worker_op[w].kind = "raises"
                  /\ worker_pc'[w] # "exec") => worker_pc'[w] = "test" ]_vars
    /\ \A o \in {x \in Ops : x.kind = "ok" /\ x.src \in QueueProducers /\ x.n <= MaxOps} :
          (\E i \in 2..Len(update_queue) :
                update_queue[i] = o /\ update_queue[i - 1].kind = "raises")
             ~> (sm_stopping \/ (Taken(o) /\ ~InQueue(o)))

\* C5 witness: the worker has executed a raising operation, is alive with the
\* stop flag down, and is executing the operation that was queued behind it.
C5_Witness ==
    /\ ~sm_stopping
    /\ Len(dequeued) >= 2
    /\ dequeued[Len(dequeued) - 1].kind = "raises"
    /\ worker_pc[1] = "exec"
    /\ worker_op[1] = dequeued[Len(dequeued)]
    /\ worker_op[1].kind = "ok"

(***************************************************************************)
(* Claims about the whole program.                                         *)
(***************************************************************************)
\* C3: once initialize has run there is exactly one Queue_Handler thread,
\* never more, and at most one queued operation is being executed, however
\* many handler invocations are putting operations on the queue.
C3_SingleWriter ==
    /\ Len(worker_pc) <= 1
    /\ pc # "start" => Len(worker_pc) = 1
    /\ Cardinality({w \in 1..Len(worker_pc) : worker_pc[w] = "exec"}) <= 1
    /\ \A w \in 1..Len(worker_pc) : worker_pc[w] = "exec" <=> worker_op[w] # NoOp

\* C3 witness: the worker is executing an operation while both tasks have a
\* handler invocation in flight and another operation is pending.
C3_Witness ==
    /\ Len(worker_pc) = 1
    /\ worker_pc[1] = "exec"
    /\ \A n \in TaskNames : instances[n] > 0
    /\ update_queue # <<>>

\* C9 (as claimed): check_health reports NeedsRestart exactly when it found
\* the link closed and re-opened it, and Ok when the probe passed or the
\* re-open failed within the limit; after NeedsRestart the run loop makes no
\* further health check, and when it is done the pipeline is torn down: the
\* queue worker's stop flag is set and the scheduler no longer runs.
C9_NeedsRestartTeardown ==
    /\ last_call.result = "NeedsRestart" <=> last_call.reopened
    /\ (last_call.result # "none" /\ (last_call.probe \/
          (~last_call.reopened /\ reconnect_attempts <= max_reconnect_attempts)))
            => last_call.result = "Ok"
    /\ last_call.result = "NeedsRestart" => pc \in {"restart", "cleanup", "exited"}
    /\ (last_call.result = "NeedsRestart" /\ pc = "exited") =>
            (sm_stopping /\ ~sched_running)

\* C10 (as claimed): once check_health has reported Fatal and the process
\* has ended, the final cleanup has been performed (display off, queue
\* worker told to stop, scheduler stopped) and the exit status is not 0.
C10_FatalCleanupExit ==
    (last_call.result = "Fatal" /\ pc = "exited") =>
        /\ exit_status # 0
        /\ display_off
        /\ sm_stopping
        /\ ~sched_running

\* C11 (as claimed): a run whose monitoring loop was entered (a health check
\* returned Ok) and then left because of a shutdown signal ends with the
\* teardown of a normal stop done: the display is off, the queue worker's stop
\* flag is set and the scheduler is stopped.
C11_SignalTeardown ==
    (mon_stopping /\ pc = "exited" /\ last_call.result = "Ok") =>
        /\ display_off
        /\ sm_stopping
        /\ last_api.op = "stop"
        /\ ~sched_running

(***************************************************************************)
(* Further claims about the metric collector.                              *)
(***************************************************************************)
\* C12: start() with no handler registered raises nothing and changes
\* nothing: the jobs are the same (none is created), the scheduler does not
\* run afterwards and get_status returns what it returned before, whatever
\* tasks the configuration holds.
C12_StartNoHandlers ==
    [][ (Start /\ task_handlers = {}) =>
          /\ last_api'.raised = "none"
          /\ jobs' = jobs
          /\ jobs' = <<>>
          /\ ~sched_running'
          /\ get_status' = get_status ]_vars

\* C12 witness: start() has returned on a collector with no handler whose
\* configuration holds two enabled tasks, and nothing is scheduled.
C12_Witness ==
    /\ last_api = [op |-> "start", arg |-> "", raised |-> "none"]
    /\ task_handlers = {}
    /\ DOMAIN config_tasks = TaskNames
    /\ \A n \in TaskNames : config_tasks[n].enabled
    /\ get_status = [running |-> FALSE, task_count |-> 0, tasks |-> {}]

\* C13 (as claimed): start() on a scheduler that is already running raises
\* nothing and replaces the schedule of each task: afterwards there is exactly
\* one job per enabled task with a handler, the job a single start() at this
\* time creates.
C13_RestartIdempotent ==
    [][ (Start /\ sched_running) =>
          /\ last_api'.raised = "none"
          /\ DOMAIN jobs' = Schedulable(config_tasks, task_handlers)
          /\ \A n \in DOMAIN jobs' : jobs'[n] = NewJob(config_tasks[n], now) ]_vars

(***************************************************************************)
(* Claims about the configuration models.                                  *)
(***************************************************************************)
\* C14: MetricTaskConfig accepts the fields exactly when the interval lies
\* in [0.1 s, 86400 s] (10 and 8640000 hundredths) and max_instances >= 1;
\* an accepted task holds the interval it was given, both bounds included;
\* an interval outside the range is a validation error on interval_seconds
\* and no task object is made.
C14_IntervalRange ==
    task_result.status # "none" =>
        LET d == task_input
            inRange == d.interval_seconds >= 10 /\ d.interval_seconds <= 8640000
        IN  /\ task_result.status = "ok" <=> (inRange /\ d.max_instances >= 1)
            /\ task_result.status = "ok" => task_result.task = d
            /\ ~inRange => /\ task_result.status = "error"
                           /\ "interval_seconds" \in task_result.errors
                           /\ task_result.task = NoDef
            /\ \A i \in 1..Len(tasks) :
                  tasks[i].interval_seconds >= 10 /\ tasks[i].interval_seconds <= 8640000

\* C14 witness: tasks with the intervals 0.1 s and 86400 s were accepted
\* unchanged, and then one with 0.05 s was rejected.
C14_Witness ==
    /\ Len(tasks) = 2
    /\ tasks[1].interval_seconds = 10
    /\ tasks[2].interval_seconds = 8640000
    /\ task_input.interval_seconds = 5
    /\ task_input.max_instances = 1
    /\ task_result.status = "error"

\* C15: MetricCollectorConfig(tasks=...) with two tasks of the same name
\* raises and gives no registry (neither the whole list nor a part of it); a
\* list of tasks with pairwise distinct names is accepted as it is, in the
\* order of the list.
C15_UniqueNames ==
    registry.status # "none" =>
        LET dup == \E i, j \in 1..Len(tasks) : i < j /\ tasks[i].name = tasks[j].name
        IN  /\ dup => /\ registry.status = "error"
                      /\ registry.tasks = <<>>
                      /\ registry.error # ""
            /\ ~dup => /\ registry.status = "ok"
                       /\ registry.tasks = tasks

\* C15 witness: a list of two valid tasks with the same name and different
\* intervals was rejected.
C15_Witness ==
    /\ Len(tasks) = 2
    /\ tasks[1].name = tasks[2].name
    /\ tasks[1].interval_seconds # tasks[2].interval_seconds
    /\ registry.status = "error"

\* C16 (as claimed): the handlers of one task do not delay the firing of
\* another: whenever a job is processed at its interval tick with no run of
\* its own in flight (so below its max_instances), its handler starts at that
\* tick, however many invocations of the other tasks are blocked.
C16_NoCrossTaskDelay ==
    [][\A n \in TaskNames :
          (Fire(n) /\ instances[n] = 0 /\ instances[n] < jobs[n].max_instances) =>
              /\ running'[n] = running[n] + 1
              /\ last_fire' = [task |-> n, outcome |-> "invoked"] ]_vars

(***************************************************************************)
(* Further claims about the whole program.                                 *)
(***************************************************************************)
\* C17 (as claimed): while the link is Disconnected (the last check_health
\* call found it closed and did not re-open it, and the run loop goes on) the
\* queue worker starts executing no queued operation, that is, nothing is
\* written to the device.
C17_OutputPausedWhileDown ==
    [][ (/\ ~simulated
         /\ last_call.result = "Ok"
         /\ ~last_call.probe
         /\ serial = "closed"
         /\ pc \in {"loop", "check"}) =>
            \A w \in 1..Len(worker_pc) :
                ~(worker_pc[w] = "poll" /\ worker_pc'[w] = "exec") ]_vars

\* C18: the wait for the queue to empty ends after a bounded number of
\* polls even when the queue never empties: every poll of _wait_for_queue is
\* counted, the wait goes on only below the limit and is left at the limit,
\* and DisplayManager.shutdown ends in the step that runs it, polling nothing.
C18_BoundedQueueWait ==
    /\ [](wait_elapsed <= InitWaitPolls)
    /\ [][ RunInitWait =>
             /\ pc' = "init_wait" => (wait_elapsed < InitWaitPolls
                                        /\ wait_elapsed' = wait_elapsed + 1)
             /\ wait_elapsed >= InitWaitPolls => pc' = "start_all" ]_vars
    /\ [][ RunShutdown => (pc' = "exited" /\ wait_elapsed' = wait_elapsed) ]_vars

\* C18 witness: the wait in initialize gave up at its limit with operations
\* still queued, and the process has ended through shutdown with the worker
\* told to stop and the queue still not empty.
C18_Witness ==
    /\ pc = "exited"
    /\ wait_elapsed = InitWaitPolls
    /\ update_queue # <<>>
    /\ sm_stopping
    /\ shutdown_calls = 1

\* C20 (as claimed): when the run has ended, on whichever path it left the
\* loop, DisplayManager.shutdown has been performed exactly once and with it
\* the scheduler's stop: the one stop() call stopped the running scheduler.
C20_TeardownOnce ==
    /\ shutdown_calls <= 1
    /\ pc = "exited" =>
          /\ shutdown_calls = 1
          /\ last_api = [op |-> "stop", arg |-> "", raised |-> "none"]
          /\ ~sched_running

(***************************************************************************)
(* Further claims about the link health check.                             *)
(***************************************************************************)
\* C19: in every check_health call each open() comes right after a reconnect
\* wait of the same call; a call on a closed link within the limit makes
\* exactly one wait and then one open(); a call that exceeds the limit
\* (Fatal), or that finds the link open or simulated, makes neither; the link
\* is only ever re-opened by such an open().
C19_WaitBeforeOpen ==
    last_call.result # "none" =>
        LET t == last_call.trace IN
        /\ \A i \in 1..Len(t) : t[i] = "open" => (i > 1 /\ t[i - 1] = "wait")
        /\ Cardinality({i \in 1..Len(t) : t[i] = "open"}) <= 1
        /\ Cardinality({i \in 1..Len(t) : t[i] = "wait"}) <= 1
        /\ last_call.result = "Fatal" => t = <<>>
        /\ (simulated \/ last_call.probe) => t = <<>>
        /\ (~simulated /\ ~last_call.probe /\ last_call.result # "Fatal") =>
              t = <<"wait", "open">>
        /\ last_call.reopened => t[Len(t)] = "open"

\* C19 witness: a second reconnect attempt waited and then tried open(), which
\* failed.
C19_Witness ==
    /\ ~simulated
    /\ last_call.result = "Ok"
    /\ ~last_call.probe
    /\ last_call.fails_before >= 1
    /\ last_call.trace = <<"wait", "open">>
    /\ serial = "closed"

(***************************************************************************)
(* Further claims about the serial queue worker.                           *)
(***************************************************************************)
\* C21: the stop flag, once set by stop_all, is never cleared; from then on
\* the worker takes at most one more operation (the one of the loop iteration
\* it was in) and then exits; once it has exited nothing is taken off the
\* queue any more, whatever is pending or put later; and a worker started
\* after stop_all takes and executes nothing.
C21_StopFlagFinal ==
    /\ [][sm_stopping => sm_stopping']_vars
    /\ [](sm_stopping => (stop_mark >= 0 /\ Len(dequeued) <= stop_mark + 1))
    /\ [][\A w \in 1..Len(worker_pc) :
            (sm_stopping /\ worker_pc[w] # "poll") => worker_pc'[w] # "poll"]_vars
    /\ [][(sm_stopping /\ worker_pc[1] = "exited") =>
            (dequeued' = dequeued /\ worker_pc'[1] = "exited")]_vars
    /\ [](\A w \in 2..Len(worker_pc) :
            worker_pc[w] \in {"test", "exited"} /\ worker_op[w] = NoOp)
    /\ sm_stopping ~> (worker_pc[1] = "exited")

\* C21 witness: the worker took one operation after the flag was set and then
\* exited, operations are still pending, and a worker started afterwards has
\* exited without taking any.
C21_Witness ==
    /\ sm_stopping
    /\ stop_mark >= 1
    /\ Len(dequeued) = stop_mark + 1
    /\ dequeued[Len(dequeued)].kind = "ok"
    /\ worker_pc[1] = "exited"
    /\ update_queue # <<>>
    /\ Len(worker_pc) = 2
    /\ worker_pc[2] = "exited"

(***************************************************************************)
(* The reconnect counter.                                                  *)
(***************************************************************************)
\* C22: as long as check_health has not reported Fatal (once it has, every
\* later call reports it again) the counter lies in 0..max_reconnect_attempts;
\* it is 0 after every call in which the probe passed or the re-open
\* succeeded; the open() calls since the link was last Connected never exceed
\* max_reconnect_attempts; only a check_health call changes the counter; and
\* for a simulated display check_health reports Ok and changes nothing.
C22_CounterInvariant ==
    /\ [][last_call.result = "Fatal" => last_call'.result = "Fatal"]_vars
    /\ [](last_call.result # "Fatal" =>
            (reconnect_attempts >= 0 /\ reconnect_attempts <= max_reconnect_attempts))
    /\ []((last_call.result # "none" /\ (last_call.probe \/ last_call.reopened)) =>
            reconnect_attempts = 0)
    /\ [](fails >= 0 /\ fails <= max_reconnect_attempts)
    /\ [](last_call.result # "Fatal" => fails = reconnect_attempts)
    /\ [][reconnect_attempts' # reconnect_attempts => CallCheckHealth]_vars
    /\ [][(CallCheckHealth /\ simulated) =>
            /\ last_call'.result = "Ok"
            /\ UNCHANGED <<reconnect_attempts, serial, fails, simulated,
                           max_reconnect_attempts>>]_vars

\* C22 witness: on a real display with a limit of at least 2 the counter
\* stands at the limit after that many failed re-opens, and check_health has
\* not reported Fatal.
C22_Witness ==
    /\ ~simulated
    /\ max_reconnect_attempts >= 2
    /\ reconnect_attempts = max_reconnect_attempts
    /\ fails = max_reconnect_attempts
    /\ last_call.result = "Ok"
    /\ serial = "closed"

====
